---- MODULE Spec2Model ----
(***************************************************************************)
(* A model of app.py (crypto-visual): the Binance fetchers get_klines and  *)
(* get_orderbook, the metrics liquidity_metrics and realized_vol, and the  *)
(* pipeline build_dashboard that renders dashboard.html.                   *)
(*                                                                         *)
(* Numbers.  A Python float is a record [nan, num, den]: NaN, or the exact *)
(* rational num/den in lowest terms with den > 0.  The inputs are small    *)
(* integers, on which float64 arithmetic agrees with the rationals up to   *)
(* rounding that no comparison below depends on.                           *)
(* A JSON string field of a response is a token [num, val]: the decimal    *)
(* string of val when num, a non-numeric string otherwise.                 *)
(***************************************************************************)
EXTENDS Integers, Sequences, FiniteSets, TLC

VARIABLES
  pc,         \* the position of the run
  raw,        \* the response body under conversion (function-level checks)
  window,     \* the window argument of realized_vol
  requests,   \* the paths of the HTTP GET requests issued, in order
  completed,  \* the calls of build_dashboard that have returned
  err,        \* the exception that ended the run, "None" if none
  kl, ob, mets, klv, frames, ob_plot,   \* the locals of build_dashboard
  file,       \* dashboard.html on disk: "absent", "empty" or "written"
  handle,     \* the file object of line 148: "none", "open" or "closed"
  printed     \* whether "dashboard generated" was printed

vars == <<pc, raw, window, requests, completed, err, kl, ob, mets, klv,
          frames, ob_plot, file, handle, printed>>

(***************************************************************************)
(* Bounds of the model.                                                    *)
(***************************************************************************)
MaxLevels == 2
MaxPrice == 4
MaxQty == 2
MaxLen == 4
MaxExp == 2
MaxWindow == 3
MaxN == 40
RunLevels == 1
RunCandles == 2

(***************************************************************************)
(* Floats.                                                                 *)
(***************************************************************************)
RECURSIVE GCD(_, _)
GCD(a, b) == IF b = 0 THEN a ELSE GCD(b, a % b)

Abs(x) == IF x < 0 THEN 0 - x ELSE x

NaN == [nan |-> TRUE, num |-> 0, den |-> 1]

Flt(n, d) ==
  LET g == GCD(Abs(n), d)
  IN  [nan |-> FALSE, num |-> n \div g, den |-> d \div g]

FInt(n) == Flt(n, 1)

FAdd(a, b) ==
  IF a.nan \/ b.nan THEN NaN
  ELSE Flt(a.num * b.den + b.num * a.den, a.den * b.den)

FSub(a, b) ==
  IF a.nan \/ b.nan THEN NaN
  ELSE Flt(a.num * b.den - b.num * a.den, a.den * b.den)

FMul(a, b) ==
  IF a.nan \/ b.nan THEN NaN
  ELSE Flt(a.num * b.num, a.den * b.den)

\* numpy float division; 0/0 is NaN.  A zero divisor with a non-zero
\* dividend (an infinity) does not arise: prices are positive.
FDiv(a, b) ==
  IF a.nan \/ b.nan \/ b.num = 0 THEN NaN
  ELSE IF b.num > 0 THEN Flt(a.num * b.den, a.den * b.num)
  ELSE Flt((0 - a.num) * b.den, a.den * (0 - b.num))

\* Every comparison with NaN is False.
FLe(a, b) == ~a.nan /\ ~b.nan /\ a.num * b.den <= b.num * a.den

FGe(a, b) == FLe(b, a)

FLt(a, b) == ~a.nan /\ ~b.nan /\ a.num * b.den < b.num * a.den

(***************************************************************************)
(* JSON tokens and their conversion to float.                              *)
(***************************************************************************)
Num(n) == [num |-> TRUE, val |-> n]

Garbage == [num |-> FALSE, val |-> 0]

\* float(s) of astype(float): a ValueError on a non-numeric string.
IsNumeric(t) == t.num

ToFloat(t) == FInt(t.val)

\* pd.to_numeric(errors="coerce"): NaN on a non-numeric string.
ToNumericCoerce(t) == IF t.num THEN FInt(t.val) ELSE NaN

(***************************************************************************)
(* get_orderbook                                                           *)
(***************************************************************************)
\* pd.DataFrame(rows, columns=["price","qty"]).astype(float)
SideShapeOk(rows) == \A i \in DOMAIN rows : Len(rows[i]) = 2

SideNumeric(rows) ==
  \A i \in DOMAIN rows : IsNumeric(rows[i][1]) /\ IsNumeric(rows[i][2])

SideFrame(rows, side) ==
  [i \in DOMAIN rows |->
     LET p == ToFloat(rows[i][1])
         q == ToFloat(rows[i][2])
     IN  [price |-> p, qty |-> q, side |-> side, notional |-> FMul(p, q)]]

\* "ask" sorts before "bid"; within a side, ascending price.
SideRank(s) == IF s = "ask" THEN 0 ELSE 1

RowLe(a, b) ==
  \/ SideRank(a.side) < SideRank(b.side)
  \/ SideRank(a.side) = SideRank(b.side) /\ FLe(a.price, b.price)

\* Stable insertion of row r into the sorted sequence s (after its equals).
RECURSIVE Insert(_, _)
Insert(s, r) ==
  IF s = <<>> THEN <<r>>
  ELSE IF RowLe(s[Len(s)], r) THEN Append(s, r)
  ELSE Append(Insert(SubSeq(s, 1, Len(s) - 1), r), s[Len(s)])

RECURSIVE SortValues(_)
SortValues(s) ==
  IF s = <<>> THEN <<>>
  ELSE Insert(SortValues(SubSeq(s, 1, Len(s) - 1)), s[Len(s)])

\* The exception get_orderbook raises on the response body, or "None".
OrderbookExc(body) ==
  IF "bids" \notin DOMAIN body THEN "KeyError"
  ELSE IF ~SideShapeOk(body.bids) \/ ~SideNumeric(body.bids) THEN "ValueError"
  ELSE IF "asks" \notin DOMAIN body THEN "KeyError"
  ELSE IF ~SideShapeOk(body.asks) \/ ~SideNumeric(body.asks) THEN "ValueError"
  ELSE "None"

get_orderbook(body) ==
  SortValues(SideFrame(body.bids, "bid") \o SideFrame(body.asks, "ask"))

(***************************************************************************)
(* liquidity_metrics                                                       *)
(***************************************************************************)
SelectSide(frame, side) == SelectSeq(frame, LAMBDA r : r.side = side)

Prices(frame) == {frame[i].price : i \in DOMAIN frame}

\* Variant of SeriesMax: the first-listed (lowest) price of the sorted side.
SeriesMaxAsMin(S) ==
  IF S = {} THEN NaN ELSE CHOOSE x \in S : \A y \in S : FLe(x, y)

\* Series.max() / Series.min(): NaN on an empty series.
SeriesMax(S) == IF S = {} THEN NaN ELSE CHOOSE x \in S : \A y \in S : FLe(y, x)

SeriesMin(S) == IF S = {} THEN NaN ELSE CHOOSE x \in S : \A y \in S : FLe(x, y)

\* Series.sum() of the notional column; 0.0 on an empty selection.
RECURSIVE NotionalSum(_)
NotionalSum(frame) ==
  IF frame = <<>> THEN FInt(0)
  ELSE FAdd(NotionalSum(SubSeq(frame, 1, Len(frame) - 1)),
            frame[Len(frame)].notional)

\* Variant of DepthBand: the bid bound of the band is taken from above.
DepthBandBidsBelow(frame, mid, w) ==
  FAdd(NotionalSum(SelectSeq(frame, LAMBDA r :
           r.side = "bid" /\ FLe(r.price, FMul(mid, FSub(FInt(1), w))))),
       NotionalSum(SelectSeq(frame, LAMBDA r :
           r.side = "ask" /\ FLe(r.price, FMul(mid, FAdd(FInt(1), w))))))

\* The band sum of lines 48-49 with the half-width w in place of 0.001.
DepthBand(frame, mid, w) ==
  FAdd(NotionalSum(SelectSeq(frame, LAMBDA r :
           r.side = "bid" /\ FGe(r.price, FMul(mid, FSub(FInt(1), w))))),
       NotionalSum(SelectSeq(frame, LAMBDA r :
           r.side = "ask" /\ FLe(r.price, FMul(mid, FAdd(FInt(1), w))))))

BandWidth == Flt(1, 1000)

BpsScale == 10000

liquidity_metrics(frame) ==
  LET best_bid == SeriesMax(Prices(SelectSide(frame, "bid")))
      best_ask == SeriesMin(Prices(SelectSide(frame, "ask")))
      spread == FSub(best_ask, best_bid)
      mid == FDiv(FAdd(best_ask, best_bid), FInt(2))
      rel_spread_bps == FMul(FDiv(spread, mid), FInt(BpsScale))
      depth_10bp == DepthBand(frame, mid, BandWidth)
  IN  [mid_price |-> mid, spread_abs |-> spread,
       spread_bps |-> rel_spread_bps, depth_10bp_notional |-> depth_10bp]

(***************************************************************************)
(* The depth chart of build_dashboard: groupby("side")["qty"].cumsum()     *)
(***************************************************************************)
RECURSIVE QtySum(_)
QtySum(frame) ==
  IF frame = <<>> THEN FInt(0)
  ELSE FAdd(QtySum(SubSeq(frame, 1, Len(frame) - 1)), frame[Len(frame)].qty)

\* Variant of CumQty: a running sum over the whole frame, without groupby.
CumQtyUngrouped(frame) ==
  [i \in DOMAIN frame |->
     [price |-> frame[i].price, side |-> frame[i].side,
      cum_qty |-> QtySum(SubSeq(frame, 1, i))]]

CumQty(frame) ==
  [i \in DOMAIN frame |->
     [price |-> frame[i].price, side |-> frame[i].side,
      cum_qty |-> QtySum(SelectSide(SubSeq(frame, 1, i), frame[i].side))]]

(***************************************************************************)
(* get_klines                                                              *)
(***************************************************************************)
KlineCols == 12

\* pd.DataFrame(raw, columns=cols): every row has one field per column.
KlinesExc(body) ==
  IF \E i \in DOMAIN body : Len(body[i]) # KlineCols THEN "ValueError"
  ELSE "None"

\* pd.to_datetime(close_time, unit="ms", utc=True): a UTC timestamp, here
\* whole seconds since the epoch and the milliseconds within the second.
ToDatetime(ms) == [sec |-> ms \div 1000, msec |-> ms % 1000]

get_klines(body) ==
  [i \in DOMAIN body |->
     [time |-> ToDatetime(body[i][7]),
      open |-> ToNumericCoerce(body[i][2]),
      high |-> ToNumericCoerce(body[i][3]),
      low |-> ToNumericCoerce(body[i][4]),
      close |-> ToNumericCoerce(body[i][5]),
      volume |-> ToNumericCoerce(body[i][6])]]

(***************************************************************************)
(* realized_vol                                                            *)
(*                                                                         *)
(* Closes are powers of two and np.log is taken to base two, which keeps   *)
(* the log-returns exact; the returns are those of the code divided by     *)
(* ln 2.  The entry of the column "rv" is kept squared (60 times the       *)
(* sample variance of the window), since its root is irrational: NaN, zero *)
(* and the order of entries are those of the code.                         *)
(***************************************************************************)
RECURSIVE Log2(_)
Log2(n) == IF n <= 1 THEN 0 ELSE 1 + Log2(n \div 2)

\* np.log: NaN on NaN and on a negative number.
NpLog(x) == IF x.nan \/ x.num <= 0 THEN NaN ELSE FInt(Log2(x.num \div x.den))

\* Series.diff(): NaN in the first position.
Diff(s) == [i \in DOMAIN s |-> IF i = 1 THEN NaN ELSE FSub(s[i], s[i - 1])]

RECURSIVE SeqSum(_)
SeqSum(s) ==
  IF s = <<>> THEN FInt(0)
  ELSE FAdd(SeqSum(SubSeq(s, 1, Len(s) - 1)), s[Len(s)])

\* The square of std(ddof=1) of the w observations of s; NaN when w = 1.
VarSample(s) ==
  LET w == Len(s)
      sq == [i \in DOMAIN s |-> FMul(s[i], s[i])]
  IN  IF w < 2 THEN NaN
      ELSE FDiv(FSub(SeqSum(sq), FDiv(FMul(SeqSum(s), SeqSum(s)), FInt(w))),
                FInt(w - 1))

\* Variant of RollingStd: min_periods one less than the window.
RollingStdShort(r, w) ==
  [i \in DOMAIN r |->
     IF i < w THEN NaN
     ELSE LET win == SubSeq(r, i - w + 2, i)
          IN  IF \E j \in DOMAIN win : win[j].nan THEN NaN ELSE VarSample(win)]

\* r.rolling(w).std(), squared: min_periods is w, so an entry needs w
\* observations in its window, none of them NaN.
RollingStd(r, w) ==
  [i \in DOMAIN r |->
     IF i < w THEN NaN
     ELSE LET win == SubSeq(r, i - w + 1, i)
          IN  IF \E j \in DOMAIN win : win[j].nan THEN NaN ELSE VarSample(win)]

VolScale == 60

\* (r.rolling(w).std() * np.sqrt(60)), squared, before fillna.
RolledVol(df, w) ==
  LET r == Diff([i \in DOMAIN df |-> NpLog(df[i].close)])
      s == RollingStd(r, w)
  IN  [i \in DOMAIN df |-> FMul(s[i], FInt(VolScale))]

FillNa(x, v) == IF x.nan THEN v ELSE x

realized_vol(df, w) ==
  LET rolled == RolledVol(df, w)
  IN  [i \in DOMAIN df |->
         [time |-> df[i].time, open |-> df[i].open, high |-> df[i].high,
          low |-> df[i].low, close |-> df[i].close, volume |-> df[i].volume,
          rv |-> FillNa(rolled[i], FInt(0))]]

DefaultWindow == 30

(***************************************************************************)
(* The animation frames of build_dashboard                                 *)
(***************************************************************************)
FrameStart == 20

FrameStep == 5

\* Variant of RangeLen: the stop value is included.
RangeLenInclusive(start, stop, step) ==
  IF stop < start THEN 0 ELSE (stop - start + step) \div step

\* len(range(start, stop, step))
RangeLen(start, stop, step) ==
  IF stop <= start THEN 0 ELSE (stop - start + step - 1) \div step

\* str(k) of a non-negative int: its decimal digits, most significant first.
RECURSIVE Str(_)
Str(n) == IF n < 10 THEN <<n>> ELSE Append(Str(n \div 10), n % 10)

Min(a, b) == IF a <= b THEN a ELSE b

\* kl[:n]
Prefix(df, n) == SubSeq(df, 1, Min(n, Len(df)))

Frames(df) ==
  [j \in 1..RangeLen(FrameStart, Len(df), FrameStep) |->
     LET kk == FrameStart + (j - 1) * FrameStep
     IN  [name |-> Str(kk), data |-> Prefix(df, kk)]]

(***************************************************************************)
(* Response bodies.  The depth endpoint lists each side by price level,    *)
(* bids from the highest price down and asks from the lowest price up,     *)
(* one row per price.                                                      *)
(***************************************************************************)
SeqsUpTo(S, n) == UNION {[1..m -> S] : m \in 0..n}

LevelRows(maxQty) ==
  {<<Num(p), Num(q)>> : p \in 1..MaxPrice, q \in 1..maxQty}

BidRows(n, maxQty) ==
  {s \in SeqsUpTo(LevelRows(maxQty), n) :
     \A i \in 1..(Len(s) - 1) : s[i][1].val > s[i + 1][1].val}

AskRows(n, maxQty) ==
  {s \in SeqsUpTo(LevelRows(maxQty), n) :
     \A i \in 1..(Len(s) - 1) : s[i][1].val < s[i + 1][1].val}

BookBodies(n, maxQty) ==
  {[bids |-> b, asks |-> a] : b \in BidRows(n, maxQty), a \in AskRows(n, maxQty)}

\* No "bids" key, no "asks" key, a non-numeric price, a row of one field.
MalformedBooks ==
  { [asks |-> <<>>],
    [bids |-> <<>>],
    [bids |-> << <<Garbage, Num(1)>> >>, asks |-> <<>>],
    [bids |-> <<>>, asks |-> << <<Num(1)>> >>] }

CloseToks == {Num(2 ^ e) : e \in 0..MaxExp} \cup {Garbage}

KlineRow(i, c) ==
  <<(i - 1) * 60000, c, c, c, c, Num(1), (i - 1) * 60000 + 59999,
    Num(1), 1, Num(1), Num(1), Num(0)>>

\* n one-minute candles with the closes cs.
KlineBody(cs) == [i \in DOMAIN cs |-> KlineRow(i, cs[i])]

FlatBody(n, c) == KlineBody([i \in 1..n |-> c])

MalformedKlines == { << <<0, Num(1)>> >> }

NoMets == [none |-> TRUE]

Locals0 ==
  /\ requests = <<>>
  /\ completed = {}
  /\ err = "None"
  /\ ob = <<>>
  /\ mets = NoMets
  /\ klv = <<>>
  /\ frames = <<>>
  /\ ob_plot = <<>>
  /\ file = "absent"
  /\ handle = "none"
  /\ printed = FALSE

(***************************************************************************)
(* build_dashboard, one action per statement that calls out.               *)
(***************************************************************************)
\* requests.get raising, raise_for_status raising, r.json() raising.
TransportFailures == {"Timeout", "HTTPError", "JSONDecodeError"}

\* Variants of Abort: the error is swallowed and the run goes on; the run
\* starts over.
AbortContinue(e) ==
  /\ err' = e
  /\ pc' = IF pc = "klines" THEN "orderbook"
           ELSE IF pc = "orderbook" THEN "metrics"
           ELSE "aborted"

AbortRetry(e) ==
  /\ err' = e
  /\ pc' = "klines"


Abort(e) ==
  /\ err' = e
  /\ pc' = "aborted"

Init ==
  /\ pc = "klines"
  /\ raw = <<>>
  /\ window = DefaultWindow
  /\ kl = <<>>
  /\ Locals0

GetKlines ==
  /\ pc = "klines"
  /\ requests' = Append(requests, "/api/v3/klines")
  /\ \/ /\ \E e \in TransportFailures : Abort(e)
        /\ UNCHANGED <<kl, completed>>
     \/ \E body \in {FlatBody(n, c) : n \in 0..RunCandles, c \in CloseToks}
                      \cup MalformedKlines :
          IF KlinesExc(body) # "None"
          THEN Abort(KlinesExc(body)) /\ UNCHANGED <<kl, completed>>
          ELSE /\ kl' = get_klines(body)
               /\ completed' = completed \cup {"get_klines"}
               /\ pc' = "orderbook"
               /\ UNCHANGED err
  /\ UNCHANGED <<raw, window, ob, mets, klv, frames, ob_plot, file, handle,
                 printed>>

GetOrderbook ==
  /\ pc = "orderbook"
  /\ requests' = Append(requests, "/api/v3/depth")
  /\ \/ /\ \E e \in TransportFailures : Abort(e)
        /\ UNCHANGED <<ob, completed>>
     \/ \E body \in BookBodies(RunLevels, 1) \cup MalformedBooks :
          IF OrderbookExc(body) # "None"
          THEN Abort(OrderbookExc(body)) /\ UNCHANGED <<ob, completed>>
          ELSE /\ ob' = get_orderbook(body)
               /\ completed' = completed \cup {"get_orderbook"}
               /\ pc' = "metrics"
               /\ UNCHANGED err
  /\ UNCHANGED <<raw, window, kl, mets, klv, frames, ob_plot, file, handle,
                 printed>>

LiquidityMetrics ==
  /\ pc = "metrics"
  /\ mets' = liquidity_metrics(ob)
  /\ completed' = completed \cup {"liquidity_metrics"}
  /\ pc' = "vol"
  /\ UNCHANGED <<raw, window, requests, err, kl, ob, klv, frames, ob_plot,
                 file, handle, printed>>

RealizedVol ==
  /\ pc = "vol"
  /\ klv' = realized_vol(kl, window)
  /\ completed' = completed \cup {"realized_vol"}
  /\ pc' = "figures"
  /\ UNCHANGED <<raw, window, requests, err, kl, ob, mets, frames, ob_plot,
                 file, handle, printed>>

\* Lines 67-146: the four figures and the HTML string.
BuildFigures ==
  /\ pc = "figures"
  /\ frames' = Frames(kl)
  /\ ob_plot' = CumQty(ob)
  /\ completed' = completed \cup {"html"}
  /\ pc' = "open"
  /\ UNCHANGED <<raw, window, requests, err, kl, ob, mets, klv, file, handle,
                 printed>>

\* open("dashboard.html", "w"): creates or truncates the file.
OpenFile ==
  /\ pc = "open"
  /\ \/ /\ Abort("OSError")
        /\ UNCHANGED <<file, handle>>
     \/ /\ file' = "empty"
        /\ handle' = "open"
        /\ pc' = "write"
        /\ UNCHANGED err
  /\ UNCHANGED <<raw, window, requests, completed, kl, ob, mets, klv, frames,
                 ob_plot, printed>>

\* .write(html) on the unnamed file object.  No statement closes it: once
\* the call is over the object is unreachable, and the interpreter closes
\* (and flushes) it when it finalizes the object, at once under reference
\* counting, at some later collection otherwise.
WriteFile ==
  /\ pc = "write"
  /\ \/ /\ Abort("OSError")
        /\ \/ handle' = "closed"
           \/ handle' = "open"
        /\ UNCHANGED <<file, completed>>
     \/ /\ pc' = "print"
        /\ completed' = completed \cup {"write"}
        /\ \/ handle' = "closed" /\ file' = "written"
           \/ handle' = "open" /\ file' = "empty"
        /\ UNCHANGED err
  /\ UNCHANGED <<raw, window, requests, kl, ob, mets, klv, frames, ob_plot,
                 printed>>

PrintDone ==
  /\ pc = "print"
  /\ printed' = TRUE
  /\ pc' = "done"
  /\ UNCHANGED <<raw, window, requests, completed, err, kl, ob, mets, klv,
                 frames, ob_plot, file, handle>>

\* The deferred finalization of the file object.
Finalize ==
  /\ pc \in {"print", "done", "aborted"}
  /\ handle = "open"
  /\ handle' = "closed"
  /\ file' = IF "write" \in completed THEN "written" ELSE file
  /\ UNCHANGED <<pc, raw, window, requests, completed, err, kl, ob, mets, klv,
                 frames, ob_plot, printed>>

Next ==
  \/ GetKlines
  \/ GetOrderbook
  \/ LiquidityMetrics
  \/ RealizedVol
  \/ BuildFigures
  \/ OpenFile
  \/ WriteFile
  \/ PrintDone
  \/ Finalize

Spec == Init /\ [][Next]_vars

(***************************************************************************)
(* get_orderbook, liquidity_metrics and the depth chart on every body.     *)
(***************************************************************************)
InitBook ==
  /\ pc = "book"
  /\ raw \in BookBodies(MaxLevels, MaxQty) \cup MalformedBooks
  /\ window = DefaultWindow
  /\ kl = <<>>
  /\ Locals0

BookFetch ==
  /\ pc = "book"
  /\ IF OrderbookExc(raw) # "None"
     THEN Abort(OrderbookExc(raw)) /\ UNCHANGED <<ob, completed>>
     ELSE /\ ob' = get_orderbook(raw)
          /\ completed' = completed \cup {"get_orderbook"}
          /\ pc' = "book_metrics"
          /\ UNCHANGED err
  /\ UNCHANGED <<raw, window, requests, kl, mets, klv, frames, ob_plot, file,
                 handle, printed>>

BookMetrics ==
  /\ pc = "book_metrics"
  /\ mets' = liquidity_metrics(ob)
  /\ completed' = completed \cup {"liquidity_metrics"}
  /\ pc' = "book_plot"
  /\ UNCHANGED <<raw, window, requests, err, kl, ob, klv, frames, ob_plot,
                 file, handle, printed>>

BookPlot ==
  /\ pc = "book_plot"
  /\ ob_plot' = CumQty(ob)
  /\ completed' = completed \cup {"ob_plot"}
  /\ pc' = "book_done"
  /\ UNCHANGED <<raw, window, requests, err, kl, ob, mets, klv, frames, file,
                 handle, printed>>

NextBook ==
  \/ BookFetch
  \/ BookMetrics
  \/ BookPlot

SpecBook == InitBook /\ [][NextBook]_vars

(***************************************************************************)
(* realized_vol on every candle series and window.                         *)
(***************************************************************************)
InitVol ==
  /\ pc = "vol"
  /\ raw \in {KlineBody(cs) : cs \in SeqsUpTo(CloseToks, MaxLen)}
  /\ window \in 1..MaxWindow
  /\ kl = get_klines(raw)
  /\ Locals0

VolApply ==
  /\ pc = "vol"
  /\ klv' = realized_vol(kl, window)
  /\ completed' = completed \cup {"realized_vol"}
  /\ pc' = "vol_done"
  /\ UNCHANGED <<raw, window, requests, err, kl, ob, mets, frames, ob_plot,
                 file, handle, printed>>

NextVol == VolApply

SpecVol == InitVol /\ [][NextVol]_vars

(***************************************************************************)
(* The animation frames on every candle count.                             *)
(***************************************************************************)
InitFrames ==
  /\ pc = "frames"
  /\ raw \in {FlatBody(n, c) : n \in 0..MaxN, c \in CloseToks}
  /\ window = DefaultWindow
  /\ kl = get_klines(raw)
  /\ Locals0

FramesBuild ==
  /\ pc = "frames"
  /\ frames' = Frames(kl)
  /\ completed' = completed \cup {"frames"}
  /\ pc' = "frames_done"
  /\ UNCHANGED <<raw, window, requests, err, kl, ob, mets, klv, ob_plot, file,
                 handle, printed>>

NextFrames == FramesBuild

SpecFrames == InitFrames /\ [][NextFrames]_vars

(***************************************************************************)
(* Properties.                                                             *)
(***************************************************************************)
FetchAndCompute ==
  {"get_klines", "get_orderbook", "liquidity_metrics", "realized_vol"}

RunStep ==
  \/ GetKlines
  \/ GetOrderbook
  \/ LiquidityMetrics
  \/ RealizedVol
  \/ BuildFigures
  \/ OpenFile
  \/ WriteFile
  \/ PrintDone

Bids(frame) == SelectSide(frame, "bid")

Asks(frame) == SelectSide(frame, "ask")

\* C1: dashboard.html is created and the completion message printed only
\* after get_klines, get_orderbook, liquidity_metrics and realized_vol have
\* all returned; an error in a fetch or compute step is never caught: it
\* ends the run (no step of build_dashboard follows it), leaving no report
\* file and no completion message.
C1_ReportOnlyAfterAllSteps ==
  /\ (file # "absent" \/ handle # "none" \/ printed)
        => FetchAndCompute \subseteq completed
  /\ printed => "write" \in completed /\ file # "absent"
  /\ err # "None" => pc = "aborted" /\ ~printed /\ ~ENABLED RunStep
  /\ (err # "None" /\ ~(FetchAndCompute \subseteq completed))
        => file = "absent" /\ handle = "none"

C1_Witness ==
  /\ pc = "done"
  /\ printed
  /\ file = "written"
  /\ FetchAndCompute \subseteq completed

\* C2: a malformed or empty response makes the fetch fail with
\* DataFormatError: no fetch ends in another parse error, and no fetch
\* returns an empty candle series or an order book with an empty side for
\* the run to go on with.
C2_MalformedOrEmptyRaisesDataFormatError ==
  /\ err \notin {"KeyError", "ValueError"}
  /\ "get_klines" \in completed => kl # <<>>
  /\ "get_orderbook" \in completed => Bids(ob) # <<>> /\ Asks(ob) # <<>>

\* C3: liquidity_metrics never returns a metrics value for an order book
\* with no bid level or no ask level.
C3_EmptySideSignalsError ==
  "liquidity_metrics" \in completed => Bids(ob) # <<>> /\ Asks(ob) # <<>>

AllClosesPositive(df) ==
  \A i \in DOMAIN df : ~df[i].close.nan /\ df[i].close.num > 0

\* C4, as stated: the series returned by realized_vol has window - 1
\* leading zero-filled entries, positions 0 .. window - 2, and position
\* window - 1 (0-based) is computed from a full window of log-returns.
C4_WindowMinusOneLeadingFills ==
  pc = "vol_done" =>
    LET rolled == RolledVol(kl, window)
    IN  \A i \in DOMAIN klv :
          /\ i <= window - 1 => rolled[i].nan /\ klv[i].rv = FInt(0)
          /\ i = window => ~rolled[i].nan /\ klv[i].rv = rolled[i]

\* C4, amended: for closes that are all positive numbers and a window of
\* at least 2, the series has min(window, N) leading zero-filled entries:
\* positions 0 .. window - 1 are the zero fill, and every later position,
\* position window (0-based) first, is computed from a full window of
\* log-returns.
C4_WindowLeadingFills ==
  (pc = "vol_done" /\ window >= 2 /\ AllClosesPositive(kl)) =>
    LET rolled == RolledVol(kl, window)
    IN  /\ Len(klv) = Len(kl)
        /\ \A i \in DOMAIN klv :
             /\ i <= window => rolled[i].nan /\ klv[i].rv = FInt(0)
             /\ i > window => ~rolled[i].nan /\ klv[i].rv = rolled[i]

C4_Witness ==
  /\ pc = "vol_done"
  /\ window = 2
  /\ AllClosesPositive(kl)
  /\ Len(klv) > window + 1
  /\ klv[window].rv = FInt(0)
  /\ klv[window + 1].rv # FInt(0)

C5_Requests ==
  /\ requests \in {<<>>, <<"/api/v3/klines">>,
                   <<"/api/v3/klines", "/api/v3/depth">>}
  /\ Len(requests) = 2 => "get_klines" \in completed
  /\ err # "None" => ~ENABLED (GetKlines \/ GetOrderbook)

\* C5: a run issues at most two GET requests, the candle request first and
\* the order-book request only after get_klines has returned; no request
\* is issued twice, and none is issued once a request has failed.
C5_TwoRequestsInOrderNoRetry ==
  /\ []C5_Requests
  /\ [][err # "None" => requests' = requests]_vars

C5_Witness ==
  /\ Len(requests) = 2
  /\ err \in TransportFailures
  /\ pc = "aborted"

\* C6: no run ends, normally or by an error, with the file object of
\* dashboard.html still open.
C6_HandleClosedAtEnd ==
  pc \in {"done", "aborted"} => handle # "open"

\* Half-widths of the band: none, the 10 bps of the code, 25 % and 100 %.
Widths == <<Flt(0, 1000), Flt(1, 1000), Flt(250, 1000), Flt(1000, 1000)>>

\* C7: for a book with a bid and an ask, the band notional around the mid
\* price of liquidity_metrics is non-decreasing in the half-width.
C7_DepthBandMonotone ==
  ("liquidity_metrics" \in completed /\ Bids(ob) # <<>> /\ Asks(ob) # <<>>) =>
    LET depth == << DepthBand(ob, mets.mid_price, Widths[1]),
                    DepthBand(ob, mets.mid_price, Widths[2]),
                    DepthBand(ob, mets.mid_price, Widths[3]),
                    DepthBand(ob, mets.mid_price, Widths[4]) >>
    IN  \A i, j \in DOMAIN Widths :
          FLe(Widths[i], Widths[j]) => FLe(depth[i], depth[j])

C7_Witness ==
  /\ "liquidity_metrics" \in completed
  /\ Bids(ob) # <<>>
  /\ Asks(ob) # <<>>
  /\ mets.depth_10bp_notional = DepthBand(ob, mets.mid_price, Widths[2])
  /\ FLt(FInt(0), mets.depth_10bp_notional)
  /\ FLt(DepthBand(ob, mets.mid_price, Widths[2]),
         DepthBand(ob, mets.mid_price, Widths[3]))
  /\ FLt(DepthBand(ob, mets.mid_price, Widths[3]),
         DepthBand(ob, mets.mid_price, Widths[4]))

\* C8: for a book with a bid and an ask that is not crossed, spread_abs is
\* the minimum ask price minus the maximum bid price and is not negative,
\* and mid_price lies between the two, bounds included.
C8_SpreadAndMidOfUncrossedBook ==
  ("liquidity_metrics" \in completed /\ Bids(ob) # <<>> /\ Asks(ob) # <<>>) =>
    \A bb \in Prices(Bids(ob)), ba \in Prices(Asks(ob)) :
      ( /\ \A p \in Prices(Bids(ob)) : FLe(p, bb)
        /\ \A p \in Prices(Asks(ob)) : FLe(ba, p)
        /\ FLe(bb, ba) )
      => /\ mets.spread_abs = FSub(ba, bb)
         /\ FGe(mets.spread_abs, FInt(0))
         /\ FLe(bb, mets.mid_price)
         /\ FLe(mets.mid_price, ba)

C8_Witness ==
  /\ "liquidity_metrics" \in completed
  /\ Len(Bids(ob)) = 2
  /\ Len(Asks(ob)) = 2
  /\ FLt(FInt(0), mets.spread_abs)
  /\ \A p \in Prices(Bids(ob)) : FLt(p, mets.mid_price)
  /\ \A p \in Prices(Asks(ob)) : FLt(mets.mid_price, p)

\* The quantity the response lists on one side at prices up to p.
RECURSIVE RawQtyUpTo(_, _)
RawQtyUpTo(rows, p) ==
  IF rows = <<>> THEN 0
  ELSE RawQtyUpTo(SubSeq(rows, 1, Len(rows) - 1), p)
       + (IF rows[Len(rows)][1].val <= p THEN rows[Len(rows)][2].val ELSE 0)

\* C9: in the depth chart each side's levels are in ascending price order
\* and its cumulative quantity is non-decreasing along them; the running
\* sum at a level is the quantity of that side alone at prices up to it.
C9_CumulativeQtyPerSide ==
  "ob_plot" \in completed =>
    /\ Len(ob_plot) = Len(raw.bids) + Len(raw.asks)
    /\ \A i, j \in DOMAIN ob_plot :
         (i < j /\ ob_plot[i].side = ob_plot[j].side)
         => /\ FLe(ob_plot[i].price, ob_plot[j].price)
            /\ FLe(ob_plot[i].cum_qty, ob_plot[j].cum_qty)
    /\ \A i \in DOMAIN ob_plot :
         ob_plot[i].cum_qty =
           FInt(RawQtyUpTo(IF ob_plot[i].side = "bid" THEN raw.bids
                           ELSE raw.asks, ob_plot[i].price.num))

C9_Witness ==
  /\ "ob_plot" \in completed
  /\ Len(raw.bids) = 2
  /\ Len(raw.asks) = 2
  /\ \E i, j \in DOMAIN ob_plot :
       /\ i < j
       /\ ob_plot[i].side = "bid"
       /\ ob_plot[j].side = "bid"
       /\ FLt(ob_plot[i].cum_qty, ob_plot[j].cum_qty)

\* The int a decimal digit string denotes.
RECURSIVE IntOf(_)
IntOf(ds) ==
  IF ds = <<>> THEN 0
  ELSE 10 * IntOf(SubSeq(ds, 1, Len(ds) - 1)) + ds[Len(ds)]

\* C10: the frames are the prefixes of the N candles of lengths 20, 25,
\* 30, ... below N, in increasing order, each named by its length and
\* holding the first candles of the series; none when N <= 20.
C10_FramesArePrefixes ==
  "frames" \in completed =>
    LET N == Len(kl)
        ks == {n \in 0..N : n >= 20 /\ n < N /\ (n - 20) % 5 = 0}
    IN  /\ Len(frames) = Cardinality(ks)
        /\ {IntOf(frames[j].name) : j \in DOMAIN frames} = ks
        /\ N <= 20 => frames = <<>>
        /\ \A j \in DOMAIN frames :
             /\ Len(frames[j].data) = IntOf(frames[j].name)
             /\ Len(frames[j].data) < N
             /\ \A i \in DOMAIN frames[j].data : frames[j].data[i] = kl[i]
             /\ j > 1 => Len(frames[j].data) > Len(frames[j - 1].data)

C10_Witness ==
  /\ "frames" \in completed
  /\ Len(kl) = 31
  /\ Len(frames) = 3
  /\ frames[3].name = <<3, 0>>
  /\ Len(frames[3].data) = 30

====
